---- MODULE Spec2Model ----
(***************************************************************************)
(* A model of the Open vSwitch datapath client of Tufin/conntrack:         *)
(* the family resolver with its run-once module autoload (lookupFamily,    *)
(* triedLoadOpenvswitchModule, loadOpenvswitchModule), the session handle  *)
(* constructors (newDpifType, NewDpif, NewDpifOvs) and the flow-follow     *)
(* orchestrator (FollowOvsFlows).                                          *)
(*                                                                         *)
(* Threads execute the Go code statement by statement; pc[t] is the        *)
(* position of thread t.  The kernel and the transport library are the     *)
(* environment: each of their calls draws its outcome from the set of      *)
(* outcomes the kernel state allows.                                       *)
(*                                                                         *)
(* SpecOnce : NumCallers threads resolving families concurrently.          *)
(* Spec     : one client thread using the session layer call after call.   *)
(***************************************************************************)
EXTENDS Integers, Sequences, FiniteSets, TLC

\* ------------------------------------------------------------------ bounds
NumCallers == 2     \* concurrent threads of SpecOnce
MaxLookups == 2     \* lookupFamily calls per thread of SpecOnce
MaxCalls   == 2     \* constructor calls of the client of Spec
MaxStops   == 2     \* invocations of one returned stop function
MaxEvents  == 1     \* flow events a reader delivers

\* --------------------------------------------------------------- constants
DATAPATH     == 0
VPORT        == 1
FLOW         == 2
PACKET       == 3
FAMILY_COUNT == 4

familyNames ==
    [i \in 0..(FAMILY_COUNT - 1) |->
        CASE i = DATAPATH -> "ovs_datapath"
          [] i = VPORT    -> "ovs_vport"
          [] i = FLOW     -> "ovs_flow"
          [] OTHER        -> "ovs_packet"]

\* ------------------------------------------------------------------ errors
\* A Go error value: its dynamic type and its content.
NilErr == [kind |-> "nil", arg |-> ""]

NetlinkError(errno) == [kind |-> "NetlinkError", arg |-> errno]

familyUnavailableError(family) == [kind |-> "familyUnavailableError", arg |-> family]

IsKernelLacksODPError(err) == err.kind = "familyUnavailableError"

ErrorString(msg) == [kind |-> "errorString", arg |-> msg]

\* ---------------------------------------------------------------- families
NoGroups == [n \in {} |-> 0]

\* GenlFamily{}: the zero value.
EmptyFamily == [id |-> 0, mcGroups |-> NoGroups]

\* Generic netlink hands out family ids from GENL_MIN_ID upwards.
GenlMinId == 16

\* The multicast group id the kernel gives the group of family i.
KernelGroupId(i) == i + 1

\* The family the kernel reports for familyNames[i] when openvswitch is loaded.
\* Datapath, vport and flow each have one group, named like the family; an
\* older module has no flow group (hasFlowGroup is FALSE).
KernelFamily(i, hasFlowGroup) ==
    [id |-> GenlMinId + i,
     mcGroups |-> IF i = PACKET \/ (i = FLOW /\ ~hasFlowGroup)
                  THEN NoGroups
                  ELSE [n \in {familyNames[i]} |-> KernelGroupId(i)]]

VARIABLES
    pc,            \* thread -> position in the code
    moduleLoaded,  \* kernel: the openvswitch module is loaded
    flowGroup,     \* kernel: the module registers the ovs_flow multicast group
    sockets,       \* kernel: every socket opened so far, in order of creation
    onceDone,      \* triedLoadOpenvswitchModule.done
    onceMu,        \* triedLoadOpenvswitchModule.m: the holder, 0 when free
    probeRuns,     \* executions of loadOpenvswitchModule started
    probeEnded,    \* executions of loadOpenvswitchModule returned
    lf,            \* thread -> frame of its lookupFamily call
    calls,         \* thread -> top-level calls made so far
    fr,            \* thread -> frame of the constructor call in progress
    dpifs,         \* the Dpif objects returned to the client
    follows,       \* the results FollowOvsFlows returned to the client
    px             \* the call of a function of the codec in progress (SpecPure)

vars == <<pc, moduleLoaded, flowGroup, sockets, onceDone, onceMu, probeRuns,
          probeEnded, lf, calls, fr, dpifs, follows, px>>

kernelVars == <<moduleLoaded, flowGroup>>
onceVars == <<onceDone, onceMu, probeRuns, probeEnded>>
sessionVars == <<fr, dpifs, follows>>

Threads == DOMAIN pc

\* ----------------------------------------------------------------- sockets
\* A socket of the kernel: its type, its descriptor number, whether it is
\* still open, the multicast groups it joined, the top-level call that opened
\* it and the number of Close calls made on the socket object.
NewSocket(kind, fd, call) ==
    [kind |-> kind, fd |-> fd, open |-> TRUE, groups |-> {}, call |-> call,
     closeCalls |-> 0]

UsedFds(S) == {S[k].fd : k \in {j \in 1..Len(S) : S[j].open}}

\* The kernel gives a new socket the lowest descriptor number not in use.
LowestFreeFd(S) ==
    CHOOSE f \in 1..(Len(S) + 1) :
        /\ f \notin UsedFds(S)
        /\ \A g \in 1..(f - 1) : g \in UsedFds(S)

\* The socket table after socket(2) succeeded.
OpenSocket(S, kind, call) == Append(S, NewSocket(kind, LowestFreeFd(S), call))

\* close(2) on descriptor fd: whichever open socket has that number is closed.
CloseFd(S, fd) ==
    [k \in 1..Len(S) |->
        IF S[k].open /\ S[k].fd = fd THEN [S[k] EXCEPT !.open = FALSE] ELSE S[k]]

\* NetlinkSocket.Close of the socket object s: close(2) on the descriptor
\* number the object holds.  On an object closed before, the number is stale:
\* close(2) fails with EBADF, or closes the socket that was given the number
\* since.
SockClose(S, s) ==
    LET T == CloseFd(S, S[s].fd)
    IN  [T EXCEPT ![s].closeCalls = @ + 1]

\* setsockopt(fd, SOL_NETLINK, NETLINK_ADD_MEMBERSHIP, group) succeeded.
JoinGroup(S, s, group) == [S EXCEPT ![s].groups = @ \cup {group}]

\* ------------------------------------------------------------ lookupFamily
\* The frame of a lookupFamily call.
\*   name      the family index i of the name familyNames[i] being resolved
\*   q         the errors of the queries issued so far, in order
\*   triggered the call has invoked triedLoadOpenvswitchModule.Do
\*   ran       the call executed loadOpenvswitchModule itself
\*   unknown   the module was not loaded when the call issued its first query
\*   s         the temporary socket of loadOpenvswitchModule (0: none)
\*   ioctl     the result of the SIOCGIFINDEX request, which the code discards
\*             ("none": not issued)
\*   family, err  the values the call returns
NoLookup ==
    [name |-> 0, q |-> <<>>, triggered |-> FALSE, ran |-> FALSE,
     unknown |-> FALSE, s |-> 0, ioctl |-> "none", family |-> EmptyFamily,
     err |-> NilErr]

\* sock.LookupGenlFamily(familyNames[i]): the pairs (family, err) the kernel
\* can answer with.  A transport failure is possible at any time; otherwise the
\* family is known exactly when the module is loaded.
LookupGenlFamily(i) ==
    {[family |-> EmptyFamily, err |-> NetlinkError("EPERM")]}
    \cup (IF moduleLoaded
          THEN {[family |-> KernelFamily(i, flowGroup), err |-> NilErr]}
          ELSE {[family |-> EmptyFamily, err |-> NetlinkError("ENOENT")]})

NeedsAutoloadAnyError(err) == err # NilErr

\* if err == NetlinkError(syscall.ENOENT)
NeedsAutoload(err) == err = NetlinkError("ENOENT")

UnavailableKeepsErrno(err, i) == err

\* if err == NetlinkError(syscall.ENOENT) { err = familyUnavailableError{name} }
RetryError(err, i) ==
    IF err = NetlinkError("ENOENT") THEN familyUnavailableError(familyNames[i]) ELSE err

\* family, err := sock.LookupGenlFamily(name), and the two branches on err.
lfQuery1(t) ==
    /\ pc[t] = "lf_query1"
    /\ \E r \in LookupGenlFamily(lf[t].name) :
        /\ lf' = [lf EXCEPT ![t].q = <<r.err>>,
                            ![t].unknown = ~moduleLoaded,
                            ![t].family = IF r.err = NilErr THEN r.family ELSE EmptyFamily,
                            ![t].err = r.err]
        /\ pc' = [pc EXCEPT ![t] =
                    IF r.err # NilErr /\ NeedsAutoload(r.err) THEN "once_do" ELSE "lf_ret"]
    /\ UNCHANGED <<px, kernelVars, sockets, onceVars, calls, sessionVars>>

OnceFastPathWhileRunning == onceDone \/ onceMu # 0

\* sync.Once.Do: the load of done that skips the slow path.
OnceFastPath == onceDone

\* triedLoadOpenvswitchModule.Do(loadOpenvswitchModule): the fast path.
onceDo(t) ==
    /\ pc[t] = "once_do"
    /\ lf' = [lf EXCEPT ![t].triggered = TRUE]
    /\ pc' = [pc EXCEPT ![t] = IF OnceFastPath THEN "lf_query2" ELSE "once_lock"]
    /\ UNCHANGED <<px, kernelVars, sockets, onceVars, calls, sessionVars>>

OnceRecheckMissing == TRUE

\* sync.Once.doSlow: the test of done made with the mutex held.
OnceRecheck == ~onceDone

\* sync.Once.doSlow: take the mutex; run f when done is still unset, otherwise
\* release the mutex at once.
onceLock(t) ==
    /\ pc[t] = "once_lock"
    /\ onceMu = 0
    /\ IF OnceRecheck
       THEN /\ onceMu' = t
            /\ pc' = [pc EXCEPT ![t] = "probe_socket"]
       ELSE /\ onceMu' = 0
            /\ pc' = [pc EXCEPT ![t] = "lf_query2"]
    /\ UNCHANGED <<px, kernelVars, sockets, onceDone, probeRuns, probeEnded, lf, calls,
                   sessionVars>>

\* loadOpenvswitchModule: s, err := syscall.Socket(AF_INET, SOCK_DGRAM, 0).
probeSocket(t) ==
    /\ pc[t] = "probe_socket"
    /\ probeRuns' = probeRuns + 1
    /\ \E ok \in BOOLEAN :
        IF ok
        THEN /\ sockets' = OpenSocket(sockets, "AF_INET", calls[t])
             /\ lf' = [lf EXCEPT ![t].ran = TRUE, ![t].s = Len(sockets) + 1]
             /\ pc' = [pc EXCEPT ![t] = "probe_ioctl"]
        ELSE /\ sockets' = sockets
             /\ lf' = [lf EXCEPT ![t].ran = TRUE]
             /\ pc' = [pc EXCEPT ![t] = "once_finish"]
    /\ UNCHANGED <<px, kernelVars, onceDone, onceMu, probeEnded, calls, sessionVars>>

\* loadOpenvswitchModule: the SIOCGIFINDEX ioctl naming "openvswitch".  The
\* kernel may load the module; the result of the ioctl is discarded.
probeIoctl(t) ==
    /\ pc[t] = "probe_ioctl"
    /\ \E loads \in BOOLEAN : moduleLoaded' = (moduleLoaded \/ loads)
    /\ \E res \in {"ok", "failed"} : lf' = [lf EXCEPT ![t].ioctl = res]
    /\ pc' = [pc EXCEPT ![t] = "probe_close"]
    /\ UNCHANGED <<px, flowGroup, sockets, onceVars, calls, sessionVars>>

CloseUnlessIoctlFailed(S, s, ioctl) == IF ioctl = "failed" THEN S ELSE SockClose(S, s)

\* defer syscall.Close(s): runs when the function returns, whatever the
\* ioctl answered.
DeferredClose(S, s, ioctl) == SockClose(S, s)

\* loadOpenvswitchModule: the deferred close at the return.
probeClose(t) ==
    /\ pc[t] = "probe_close"
    /\ sockets' = DeferredClose(sockets, lf[t].s, lf[t].ioctl)
    /\ pc' = [pc EXCEPT ![t] = "once_finish"]
    /\ UNCHANGED <<px, kernelVars, onceVars, lf, calls, sessionVars>>

\* sync.Once.doSlow after f returned: the deferred store of done and unlock.
onceFinish(t) ==
    /\ pc[t] = "once_finish"
    /\ probeEnded' = probeEnded + 1
    /\ onceDone' = TRUE
    /\ onceMu' = 0
    /\ pc' = [pc EXCEPT ![t] = "lf_query2"]
    /\ UNCHANGED <<px, kernelVars, sockets, probeRuns, lf, calls, sessionVars>>

\* The module might be loaded now, so try again.
lfQuery2(t) ==
    /\ pc[t] = "lf_query2"
    /\ \E r \in LookupGenlFamily(lf[t].name) :
        lf' = [lf EXCEPT ![t].q = Append(@, r.err),
                         ![t].family = IF r.err = NilErr THEN r.family ELSE EmptyFamily,
                         ![t].err = RetryError(r.err, lf[t].name)]
    /\ pc' = [pc EXCEPT ![t] = "lf_ret"]
    /\ UNCHANGED <<px, kernelVars, sockets, onceVars, calls, sessionVars>>

\* ------------------------------------------------------ concurrent callers
\* The frame of a top-level call of the session layer; unused by the callers
\* of SpecOnce.
\*   op        NewDpif, NewDpifOvs, FollowOvsFlows or stop (none: no call)
\*   follow    the argument of NewDpifOvs
\*   kind      the netlinkType of newDpifType
\*   sock      the socket newDpifType opened (0: none)
\*   i         the loop index of newDpifType
\*   families  dpif.families under construction
\*   queried   the family indices handed to lookupFamily, in order
\*   dpif      the local variable dpif of NewDpifOvs and FollowOvsFlows (0: nil)
\*   ret       the handle being returned (0: nil)
\*   err       the error being returned
\*   joinFailed  setsockopt(NETLINK_ADD_MEMBERSHIP) failed
\*   chan, stopFn, inner  FollowOvsFlows returns a non-nil channel, a non-nil
\*             stop function, and that function wraps a non-nil flow-follow stop
\*   k         the FollowOvsFlows result whose stop function is running
\*   step      the statement of the stop function to execute next
NoFrame ==
    [op |-> "none", follow |-> FALSE, kind |-> "", sock |-> 0, i |-> 0,
     families |-> [j \in 0..(FAMILY_COUNT - 1) |-> EmptyFamily],
     queried |-> <<>>, dpif |-> 0, ret |-> 0, err |-> NilErr,
     joinFailed |-> FALSE, chan |-> FALSE, stopFn |-> FALSE, inner |-> FALSE,
     k |-> 0, step |-> 0]

\* A thread of SpecOnce resolves the family names one after the other, as the
\* loop of newDpifType does, each thread on a socket of its own.
CallerLookup(t) ==
    /\ pc[t] = "idle"
    /\ calls[t] < MaxLookups
    /\ calls' = [calls EXCEPT ![t] = @ + 1]
    /\ lf' = [lf EXCEPT ![t] = [NoLookup EXCEPT !.name = calls[t] % FAMILY_COUNT]]
    /\ pc' = [pc EXCEPT ![t] = "lf_query1"]
    /\ UNCHANGED <<px, kernelVars, sockets, onceVars, sessionVars>>

CallerReturn(t) ==
    /\ pc[t] = "lf_ret"
    /\ lf' = [lf EXCEPT ![t] = NoLookup]
    /\ pc' = [pc EXCEPT ![t] = "idle"]
    /\ UNCHANGED <<px, kernelVars, sockets, onceVars, calls, sessionVars>>

InitKernel ==
    /\ moduleLoaded \in BOOLEAN
    /\ flowGroup \in BOOLEAN
    /\ sockets = <<>>
    /\ onceDone = FALSE
    /\ onceMu = 0
    /\ probeRuns = 0
    /\ probeEnded = 0
    /\ dpifs = <<>>
    /\ follows = <<>>
    /\ px = [op |-> "none"]   \* NoCall

InitOnce ==
    /\ InitKernel
    /\ pc = [t \in 1..NumCallers |-> "idle"]
    /\ lf = [t \in 1..NumCallers |-> NoLookup]
    /\ calls = [t \in 1..NumCallers |-> 0]
    /\ fr = [t \in 1..NumCallers |-> NoFrame]

NextOnce ==
    \/ \E t \in Threads : CallerLookup(t)
    \/ \E t \in Threads : lfQuery1(t)
    \/ \E t \in Threads : onceDo(t)
    \/ \E t \in Threads : onceLock(t)
    \/ \E t \in Threads : probeSocket(t)
    \/ \E t \in Threads : probeIoctl(t)
    \/ \E t \in Threads : probeClose(t)
    \/ \E t \in Threads : onceFinish(t)
    \/ \E t \in Threads : lfQuery2(t)
    \/ \E t \in Threads : CallerReturn(t)

SpecOnce == InitOnce /\ [][NextOnce]_vars


\* ------------------------------------------------------------- newDpifType
\* A Dpif object: its socket, its families, and whether the client holds it;
\* origin is the Dpif it was reopened from (0: it was constructed).
NewDpifObject(sock, families) ==
    [sock |-> sock, families |-> families, held |-> FALSE, origin |-> 0]

\* The client calls NewDpif(): newDpifType(syscall.NETLINK_NETFILTER).
ClientNewDpif(t) ==
    /\ pc[t] = "idle"
    /\ calls[t] < MaxCalls
    /\ calls' = [calls EXCEPT ![t] = @ + 1]
    /\ fr' = [fr EXCEPT ![t] = [NoFrame EXCEPT !.op = "NewDpif",
                                               !.kind = "NETLINK_NETFILTER"]]
    /\ pc' = [pc EXCEPT ![t] = "nd_open"]
    /\ UNCHANGED <<px, kernelVars, sockets, onceVars, lf, dpifs, follows>>

\* The client calls NewDpifOvs(follow): newDpifType(syscall.NETLINK_GENERIC).
ClientNewDpifOvs(t) ==
    /\ pc[t] = "idle"
    /\ calls[t] < MaxCalls
    /\ calls' = [calls EXCEPT ![t] = @ + 1]
    /\ \E follow \in BOOLEAN :
        fr' = [fr EXCEPT ![t] = [NoFrame EXCEPT !.op = "NewDpifOvs",
                                                !.follow = follow,
                                                !.kind = "NETLINK_GENERIC"]]
    /\ pc' = [pc EXCEPT ![t] = "nd_open"]
    /\ UNCHANGED <<px, kernelVars, sockets, onceVars, lf, dpifs, follows>>

\* The client calls FollowOvsFlows(): dpif, err := NewDpifOvs(true).
ClientFollowOvsFlows(t) ==
    /\ pc[t] = "idle"
    /\ calls[t] < MaxCalls
    /\ calls' = [calls EXCEPT ![t] = @ + 1]
    /\ fr' = [fr EXCEPT ![t] = [NoFrame EXCEPT !.op = "FollowOvsFlows",
                                               !.follow = TRUE,
                                               !.kind = "NETLINK_GENERIC"]]
    /\ pc' = [pc EXCEPT ![t] = "nd_open"]
    /\ UNCHANGED <<px, kernelVars, sockets, onceVars, lf, dpifs, follows>>

\* sock, err := OpenNetlinkSocket(netlinkType); dpif := &Dpif{sock: sock}.
ndOpen(t) ==
    /\ pc[t] = "nd_open"
    /\ \E ok \in BOOLEAN :
        IF ok
        THEN /\ sockets' = OpenSocket(sockets, fr[t].kind, calls[t])
             /\ fr' = [fr EXCEPT ![t].sock = Len(sockets) + 1, ![t].i = 0]
             /\ pc' = [pc EXCEPT ![t] = "nd_loop"]
        ELSE /\ sockets' = sockets
             /\ fr' = [fr EXCEPT ![t].ret = 0, ![t].err = NetlinkError("EMFILE")]
             /\ pc' = [pc EXCEPT ![t] = "nd_ret"]
    /\ UNCHANGED <<px, kernelVars, onceVars, lf, calls, dpifs, follows>>

\* for i := 0; i < FAMILY_COUNT; i++ { ... lookupFamily(sock, familyNames[i]) },
\* and return dpif, nil after the loop.
ndLoop(t) ==
    /\ pc[t] = "nd_loop"
    /\ IF fr[t].i < FAMILY_COUNT
       THEN /\ lf' = [lf EXCEPT ![t] = [NoLookup EXCEPT !.name = fr[t].i]]
            /\ fr' = [fr EXCEPT ![t].queried = Append(@, fr[t].i)]
            /\ dpifs' = dpifs
            /\ pc' = [pc EXCEPT ![t] = "lf_query1"]
       ELSE /\ lf' = lf
            /\ dpifs' = Append(dpifs, NewDpifObject(fr[t].sock, fr[t].families))
            /\ fr' = [fr EXCEPT ![t].ret = Len(dpifs) + 1, ![t].err = NilErr]
            /\ pc' = [pc EXCEPT ![t] = "nd_ret"]
    /\ UNCHANGED <<px, kernelVars, sockets, onceVars, calls, follows>>

LookupErrorLeavesSocket(S, s) == S

\* if err != nil { sock.Close(); return nil, err }: the socket table after it.
LookupErrorClosesSocket(S, s) == SockClose(S, s)

\* if err != nil: the loop of newDpifType stops at the first failed resolution.
LookupErrorStops(err) == err # NilErr

\* dpif.families[i], err = lookupFamily(sock, familyNames[i]) has returned.
ndAssign(t) ==
    /\ pc[t] = "lf_ret"
    /\ IF LookupErrorStops(lf[t].err)
       THEN /\ sockets' = LookupErrorClosesSocket(sockets, fr[t].sock)
            /\ fr' = [fr EXCEPT ![t].families[fr[t].i] = lf[t].family,
                                ![t].ret = 0,
                                ![t].err = lf[t].err]
            /\ pc' = [pc EXCEPT ![t] = "nd_ret"]
       ELSE /\ sockets' = sockets
            /\ fr' = [fr EXCEPT ![t].families[fr[t].i] = lf[t].family,
                                ![t].i = @ + 1]
            /\ pc' = [pc EXCEPT ![t] = "nd_loop"]
    /\ lf' = [lf EXCEPT ![t] = NoLookup]
    /\ UNCHANGED <<px, kernelVars, onceVars, calls, dpifs, follows>>

\* newDpifType returns to NewDpif, which returns its values as they are, or to
\* NewDpifOvs: dpif, err := newDpifType(...); if err != nil { return nil, err }.
ndReturn(t) ==
    /\ pc[t] = "nd_ret"
    /\ fr' = [fr EXCEPT ![t].dpif = fr[t].ret]
    /\ pc' = [pc EXCEPT ![t] =
                IF fr[t].op = "NewDpif" THEN "ret"
                ELSE IF fr[t].err # NilErr THEN "ovs_ret" ELSE "ovs_getmc"]
    /\ UNCHANGED <<px, kernelVars, sockets, onceVars, lf, calls, dpifs, follows>>

\* -------------------------------------------------------------- NewDpifOvs
getMCGroupUnchecked(families, family, name) ==
    IF name \in DOMAIN families[family].mcGroups
    THEN [group |-> families[family].mcGroups[name], err |-> NilErr]
    ELSE [group |-> 0, err |-> NilErr]

\* dpif.getMCGroup(family, name).
getMCGroup(families, family, name) ==
    IF name \in DOMAIN families[family].mcGroups
    THEN [group |-> families[family].mcGroups[name], err |-> NilErr]
    ELSE [group |-> 0,
          err |-> ErrorString(<<"No genl MC group", name, "in family", familyNames[family]>>)]

\* group, err := dpif.getMCGroup(FLOW, "ovs_flow");
\* if err != nil { dpif.Close(); return nil, err }; if follow { ... }; return dpif, nil.
ovsGetMCGroup(t) ==
    /\ pc[t] = "ovs_getmc"
    /\ LET r == getMCGroup(dpifs[fr[t].dpif].families, FLOW, "ovs_flow") IN
       IF r.err # NilErr
       THEN /\ sockets' = SockClose(sockets, dpifs[fr[t].dpif].sock)
            /\ fr' = [fr EXCEPT ![t].ret = 0, ![t].err = r.err]
            /\ pc' = [pc EXCEPT ![t] = "ovs_ret"]
       ELSE /\ sockets' = sockets
            /\ fr' = [fr EXCEPT ![t].ret = fr[t].dpif, ![t].err = NilErr]
            /\ pc' = [pc EXCEPT ![t] = IF fr[t].follow THEN "ovs_join" ELSE "ovs_ret"]
    /\ UNCHANGED <<px, kernelVars, onceVars, lf, calls, dpifs, follows>>

JoinErrorClosesTwice(S, s) == SockClose(SockClose(S, s), s)

\* if err := syscall.SetsockoptInt(...); err != nil { dpif.Close(); return nil, err }:
\* the socket table after it.
JoinErrorClosesSocket(S, s) == SockClose(S, s)

\* syscall.SetsockoptInt(dpif.sock.fd, SOL_NETLINK, NETLINK_ADD_MEMBERSHIP, int(group)).
ovsJoin(t) ==
    /\ pc[t] = "ovs_join"
    /\ LET d == dpifs[fr[t].dpif]
           r == getMCGroup(d.families, FLOW, "ovs_flow") IN
       \E ok \in BOOLEAN :
        IF ok
        THEN /\ sockets' = JoinGroup(sockets, d.sock, r.group)
             /\ fr' = [fr EXCEPT ![t].ret = fr[t].dpif, ![t].err = NilErr]
        ELSE /\ sockets' = JoinErrorClosesSocket(sockets, d.sock)
             /\ fr' = [fr EXCEPT ![t].ret = 0,
                                 ![t].err = [kind |-> "Errno", arg |-> "ENOBUFS"],
                                 ![t].joinFailed = TRUE]
    /\ pc' = [pc EXCEPT ![t] = "ovs_ret"]
    /\ UNCHANGED <<px, kernelVars, onceVars, lf, calls, dpifs, follows>>

\* NewDpifOvs returns to the client, or to FollowOvsFlows:
\* dpif, err := NewDpifOvs(true); if err != nil { return nil, nil, err }.
ovsReturn(t) ==
    /\ pc[t] = "ovs_ret"
    /\ fr' = [fr EXCEPT ![t].dpif = fr[t].ret]
    /\ pc' = [pc EXCEPT ![t] =
                IF fr[t].op = "NewDpifOvs" THEN "ret"
                ELSE IF fr[t].err # NilErr THEN "ff_ret" ELSE "ff_lookupdp"]
    /\ UNCHANGED <<px, kernelVars, sockets, onceVars, lf, calls, dpifs, follows>>

\* ---------------------------------------------------------- lookupDatapath
IsNoSuchDatapathError(err) == err.kind = "NoSuchDatapath"

\* The datapath identifier FollowOvsFlows resolves, character by character.
OvsSystem == <<"o", "v", "s", "-", "s", "y", "s", "t", "e", "m">>

DigitValue(c) ==
    CASE c = "0" -> 0 [] c = "1" -> 1 [] c = "2" -> 2 [] c = "3" -> 3 [] c = "4" -> 4
      [] c = "5" -> 5 [] c = "6" -> 6 [] c = "7" -> 7 [] c = "8" -> 8 [] c = "9" -> 9
      [] OTHER -> -1

\* An unsigned 32-bit word, held as two 16-bit halves.
U32(hi, lo) == [hi |-> hi, lo |-> lo]

MaxUint32 == U32(65535, 65535)

\* strconv.ParseUint's accumulation n = n*10 + d over the digits of s, with
\* the overflow of 32 bits detected.
RECURSIVE DecimalValue(_)
DecimalValue(s) ==
    IF s = <<>> THEN [over |-> FALSE, value |-> U32(0, 0)]
    ELSE LET n  == DecimalValue(SubSeq(s, 1, Len(s) - 1))
             lo == n.value.lo * 10 + DigitValue(s[Len(s)])
             hi == n.value.hi * 10 + (lo \div 65536)
         IN  IF n.over \/ hi > 65535
             THEN [over |-> TRUE, value |-> MaxUint32]
             ELSE [over |-> FALSE, value |-> U32(hi, lo % 65536)]

\* strconv.ParseUint(name, 10, 32): a non-empty string of decimal digits, no
\* sign, whose value fits 32 bits; a value out of range is a range error.
ParseUint32(s) ==
    IF s = <<>> \/ \E k \in 1..Len(s) : DigitValue(s[k]) < 0
    THEN [ok |-> FALSE, value |-> U32(0, 0)]
    ELSE IF DecimalValue(s).over
         THEN [ok |-> FALSE, value |-> MaxUint32]
         ELSE [ok |-> TRUE, value |-> DecimalValue(s).value]

\* DatapathID(ifindex): the conversion of the parsed uint64 to a DatapathID, a
\* 32-bit word; a value that fits 32 bits keeps its bits.
DatapathID(ifindex) == U32(ifindex.hi, ifindex.lo)

CannotFind(name) == ErrorString(<<"Cannot find datapath", name>>)

NumericFallbackKeepsName(name, byID) ==
    LET n == ParseUint32(name) IN
    IF n.ok /\ byID[DatapathID(n.value)].err = NilErr
    THEN [handle |-> byID[DatapathID(n.value)].handle, name |-> name,
          err |-> NilErr, calls |-> <<"LookupDatapath", "LookupDatapathByID">>]
    ELSE IF n.ok /\ ~IsNoSuchDatapathError(byID[DatapathID(n.value)].err)
    THEN [handle |-> 0, name |-> <<>>, err |-> byID[DatapathID(n.value)].err,
          calls |-> <<"LookupDatapath", "LookupDatapathByID">>]
    ELSE [handle |-> 0, name |-> <<>>, err |-> CannotFind(name),
          calls |-> IF n.ok THEN <<"LookupDatapath", "LookupDatapathByID">>
                            ELSE <<"LookupDatapath">>]

\* lookupDatapath after the name lookup failed with no-such-datapath: if the
\* name is a number, try to use it as an id.  byID[id] is what
\* dpif.LookupDatapathByID(id) returns (handle, name, err).
NumericFallback(name, byID) ==
    LET n == ParseUint32(name) IN
    IF n.ok /\ byID[DatapathID(n.value)].err = NilErr
    THEN [handle |-> byID[DatapathID(n.value)].handle,
          name |-> byID[DatapathID(n.value)].name,
          err |-> NilErr, calls |-> <<"LookupDatapath", "LookupDatapathByID">>]
    ELSE IF n.ok /\ ~IsNoSuchDatapathError(byID[DatapathID(n.value)].err)
    THEN [handle |-> 0, name |-> <<>>, err |-> byID[DatapathID(n.value)].err,
          calls |-> <<"LookupDatapath", "LookupDatapathByID">>]
    ELSE [handle |-> 0, name |-> <<>>, err |-> CannotFind(name),
          calls |-> IF n.ok THEN <<"LookupDatapath", "LookupDatapathByID">>
                            ELSE <<"LookupDatapath">>]

lookupDatapathFallsBackOnAnyError(name, byName, byID) ==
    IF byName.err = NilErr
    THEN [handle |-> byName.handle, name |-> name, err |-> NilErr,
          calls |-> <<"LookupDatapath">>]
    ELSE NumericFallback(name, byID)

\* lookupDatapath(dpif, name), given what dpif.LookupDatapath(name) returns
\* (byName: handle, err) and what dpif.LookupDatapathByID returns for each id
\* (byID): the handle, the canonical name and the error returned, and the
\* lookups it made on dpif.
lookupDatapath(name, byName, byID) ==
    IF byName.err = NilErr
    THEN [handle |-> byName.handle, name |-> name, err |-> NilErr,
          calls |-> <<"LookupDatapath">>]
    ELSE IF ~IsNoSuchDatapathError(byName.err)
    THEN [handle |-> 0, name |-> <<>>, err |-> byName.err,
          calls |-> <<"LookupDatapath">>]
    ELSE NumericFallback(name, byID)

NoSuchDatapath == [kind |-> "NoSuchDatapath", arg |-> ""]

\* dpif.LookupDatapath(name): the datapath exists, does not exist, or the
\* request fails.
LookupDatapathOutcomes ==
    {[handle |-> 1, err |-> NilErr],
     [handle |-> 0, err |-> NoSuchDatapath],
     [handle |-> 0, err |-> NetlinkError("EPERM")]}

\* The datapath ids of the model.
Ids ==
    {U32(0, 0), U32(0, 1), U32(0, 7), U32(0, 42), U32(32767, 65535), U32(32768, 0),
     MaxUint32}

\* dpif.LookupDatapathByID when no datapath has the id.
NoDatapathByID ==
    [id \in Ids |-> [handle |-> 0, name |-> <<>>, err |-> NoSuchDatapath]]

\* ---------------------------------------------------------- FollowOvsFlows
\* dp, _, err := lookupDatapath(dpif, "ovs-system");
\* if err != nil { return nil, nil, err }.
ffLookupDatapath(t) ==
    /\ pc[t] = "ff_lookupdp"
    /\ \E byName \in LookupDatapathOutcomes :
        LET r == lookupDatapath(OvsSystem, byName, NoDatapathByID) IN
        IF r.err # NilErr
        THEN /\ fr' = [fr EXCEPT ![t].err = r.err, ![t].chan = FALSE, ![t].stopFn = FALSE]
             /\ pc' = [pc EXCEPT ![t] = "ff_ret"]
        ELSE /\ fr' = fr
             /\ pc' = [pc EXCEPT ![t] = "ff_follow"]
    /\ UNCHANGED <<px, kernelVars, sockets, onceVars, lf, calls, dpifs, follows>>

\* res, stop, err := dp.FollowFlows();
\* return res, func() { stop(); dpif.Close() }, err.
\* FollowFlows returns a channel and its stop function, or an error alone.
ffFollowFlows(t) ==
    /\ pc[t] = "ff_follow"
    /\ \E ok \in BOOLEAN :
        fr' = [fr EXCEPT ![t].chan = ok,
                         ![t].inner = ok,
                         ![t].stopFn = TRUE,
                         ![t].err = IF ok THEN NilErr ELSE NetlinkError("ENOMEM")]
    /\ pc' = [pc EXCEPT ![t] = "ff_ret"]
    /\ UNCHANGED <<px, kernelVars, sockets, onceVars, lf, calls, dpifs, follows>>

\* What FollowOvsFlows returned to the client: the channel and the stop
\* function (non-nil or nil), the error, the Dpif the stop function closes, the
\* state of the background reader of the channel, the events the client
\* received, the invocations of the stop function that returned, and the
\* number of the call.
FollowResult(f, call) ==
    [chan |-> f.chan, stopFn |-> f.stopFn, inner |-> f.inner, err |-> f.err,
     dpif |-> f.dpif, reader |-> IF f.chan THEN "running" ELSE "none",
     delivered |-> 0, stops |-> 0, call |-> call]

\* The top-level call returns to the client, which keeps what it was given.
ClientReturn(t) ==
    /\ pc[t] \in {"ret", "ff_ret"}
    /\ IF fr[t].op = "FollowOvsFlows"
       THEN /\ follows' = Append(follows, FollowResult(fr[t], calls[t]))
            /\ dpifs' = dpifs
       ELSE /\ follows' = follows
            /\ dpifs' = IF fr[t].ret # 0
                        THEN [dpifs EXCEPT ![fr[t].ret].held = TRUE]
                        ELSE dpifs
    /\ fr' = [fr EXCEPT ![t] = NoFrame]
    /\ pc' = [pc EXCEPT ![t] = "idle"]
    /\ UNCHANGED <<px, kernelVars, sockets, onceVars, lf, calls>>

\* The background reader of a flow-follow hands the client an event.
DeliverEvent(k) ==
    /\ follows[k].reader = "running"
    /\ sockets[dpifs[follows[k].dpif].sock].open
    /\ follows[k].delivered < MaxEvents
    /\ follows' = [follows EXCEPT ![k].delivered = @ + 1]
    /\ UNCHANGED <<px, pc, kernelVars, sockets, onceVars, lf, calls, fr, dpifs>>

\* The client invokes a stop function FollowOvsFlows returned without error.
ClientStop(t) ==
    /\ pc[t] = "idle"
    /\ \E k \in 1..Len(follows) :
        /\ follows[k].err = NilErr
        /\ follows[k].stopFn
        /\ follows[k].stops < MaxStops
        /\ fr' = [fr EXCEPT ![t] = [NoFrame EXCEPT !.op = "stop", !.k = k, !.step = 1]]
    /\ pc' = [pc EXCEPT ![t] = "stop_body"]
    /\ UNCHANGED <<px, kernelVars, sockets, onceVars, lf, calls, dpifs, follows>>

StopFuncBodyCloseFirst == <<"Close", "stop">>

StopFuncBodyNoClose == <<"stop">>

\* func() { stop(); dpif.Close() }: the statements of the returned function.
StopFuncBody == <<"stop", "Close">>

\* One statement of the stop function: stop() ends the reader of the channel
\* (again invoked, it does nothing more); dpif.Close() is dpif.sock.Close().
stopStep(t) ==
    /\ pc[t] = "stop_body"
    /\ LET k == fr[t].k IN
       IF StopFuncBody[fr[t].step] = "stop"
       THEN /\ follows' = [follows EXCEPT ![k].reader = "stopped"]
            /\ sockets' = sockets
       ELSE /\ follows' = follows
            /\ sockets' = SockClose(sockets, dpifs[follows[k].dpif].sock)
    /\ fr' = [fr EXCEPT ![t].step = @ + 1]
    /\ pc' = [pc EXCEPT ![t] = IF fr[t].step < Len(StopFuncBody) THEN "stop_body" ELSE "stop_ret"]
    /\ UNCHANGED <<px, kernelVars, onceVars, lf, calls, dpifs>>

\* The stop function returns to the client.
stopReturn(t) ==
    /\ pc[t] = "stop_ret"
    /\ follows' = [follows EXCEPT ![fr[t].k].stops = @ + 1]
    /\ fr' = [fr EXCEPT ![t] = NoFrame]
    /\ pc' = [pc EXCEPT ![t] = "idle"]
    /\ UNCHANGED <<px, kernelVars, sockets, onceVars, lf, calls, dpifs>>

\* ------------------------------------------------------------------ Reopen
\* The client calls Reopen on a Dpif it holds.
ClientReopen(t) ==
    /\ pc[t] = "idle"
    /\ calls[t] < MaxCalls
    /\ calls' = [calls EXCEPT ![t] = @ + 1]
    /\ \E d \in 1..Len(dpifs) :
        /\ dpifs[d].held
        /\ fr' = [fr EXCEPT ![t] = [NoFrame EXCEPT !.op = "Reopen", !.dpif = d]]
    /\ pc' = [pc EXCEPT ![t] = "ro_open"]
    /\ UNCHANGED <<px, kernelVars, sockets, onceVars, lf, dpifs, follows>>

ReopenFamiliesRequeried(d) ==
    [j \in 0..(FAMILY_COUNT - 1) |->
        IF moduleLoaded THEN KernelFamily(j, flowGroup) ELSE EmptyFamily]

\* families: dpif.families, the array copied into the new Dpif.
ReopenFamilies(d) == dpifs[d].families

ReopenSockShared(d, new) == dpifs[d].sock

\* sock: sock, the socket just opened.
ReopenSock(d, new) == new

\* sock, err := OpenNetlinkSocket(dpif.sock.sockType);
\* if err != nil { return nil, err };
\* return &Dpif{sock: sock, families: dpif.families}, nil.
reopenOpen(t) ==
    /\ pc[t] = "ro_open"
    /\ LET d == fr[t].dpif IN
       \E ok \in BOOLEAN :
        IF ok
        THEN /\ sockets' = OpenSocket(sockets, sockets[dpifs[d].sock].kind, calls[t])
             /\ dpifs' = Append(dpifs,
                    [NewDpifObject(ReopenSock(d, Len(sockets) + 1), ReopenFamilies(d))
                        EXCEPT !.origin = d])
             /\ fr' = [fr EXCEPT ![t].sock = Len(sockets) + 1,
                                 ![t].ret = Len(dpifs) + 1,
                                 ![t].err = NilErr]
        ELSE /\ sockets' = sockets
             /\ dpifs' = dpifs
             /\ fr' = [fr EXCEPT ![t].ret = 0, ![t].err = NetlinkError("EMFILE")]
    /\ pc' = [pc EXCEPT ![t] = "ret"]
    /\ UNCHANGED <<px, kernelVars, onceVars, lf, calls, follows>>

\* The client calls Close on a Dpif it holds and has not closed before.
ClientClose(t) ==
    /\ pc[t] = "idle"
    /\ \E d \in 1..Len(dpifs) :
        /\ dpifs[d].held
        /\ sockets[dpifs[d].sock].closeCalls = 0
        /\ sockets' = SockClose(sockets, dpifs[d].sock)
    /\ UNCHANGED <<px, pc, kernelVars, onceVars, lf, calls, fr, dpifs, follows>>

\* The administrator unloads the openvswitch module, between two calls of the
\* client and while the client holds an open session.
UnloadModule ==
    /\ moduleLoaded
    /\ \A t \in Threads : pc[t] = "idle"
    /\ \E d \in 1..Len(dpifs) : dpifs[d].held /\ sockets[dpifs[d].sock].open
    /\ moduleLoaded' = FALSE
    /\ UNCHANGED <<px, pc, flowGroup, sockets, onceVars, lf, calls, fr, dpifs, follows>>

Init ==
    /\ InitKernel
    /\ pc = [t \in {1} |-> "idle"]
    /\ lf = [t \in {1} |-> NoLookup]
    /\ calls = [t \in {1} |-> 0]
    /\ fr = [t \in {1} |-> NoFrame]

Next ==
    \/ \E t \in Threads : ClientNewDpif(t)
    \/ \E t \in Threads : ClientNewDpifOvs(t)
    \/ \E t \in Threads : ClientFollowOvsFlows(t)
    \/ \E t \in Threads : ndOpen(t)
    \/ \E t \in Threads : ndLoop(t)
    \/ \E t \in Threads : lfQuery1(t)
    \/ \E t \in Threads : onceDo(t)
    \/ \E t \in Threads : onceLock(t)
    \/ \E t \in Threads : probeSocket(t)
    \/ \E t \in Threads : probeIoctl(t)
    \/ \E t \in Threads : probeClose(t)
    \/ \E t \in Threads : onceFinish(t)
    \/ \E t \in Threads : lfQuery2(t)
    \/ \E t \in Threads : ndAssign(t)
    \/ \E t \in Threads : ndReturn(t)
    \/ \E t \in Threads : ovsGetMCGroup(t)
    \/ \E t \in Threads : ovsJoin(t)
    \/ \E t \in Threads : ovsReturn(t)
    \/ \E t \in Threads : ffLookupDatapath(t)
    \/ \E t \in Threads : ffFollowFlows(t)
    \/ \E t \in Threads : ClientReturn(t)
    \/ \E k \in 1..Len(follows) : DeliverEvent(k)
    \/ \E t \in Threads : ClientStop(t)
    \/ \E t \in Threads : stopStep(t)
    \/ \E t \in Threads : stopReturn(t)
    \/ \E t \in Threads : ClientReopen(t)
    \/ \E t \in Threads : reopenOpen(t)
    \/ \E t \in Threads : ClientClose(t)
    \/ UnloadModule

Spec == Init /\ [][Next]_vars

\* ------------------------------------------------------------ header codec
MaxPrefix == 5   \* bytes already in the buffer when the header is written
MaxCmd == 3      \* generic netlink commands 0..MaxCmd

NLMSG_ALIGNTO == 4
SizeofOvsHeader == 4

OVS_DP_CMD_NEW == 1
OVS_VPORT_CMD_NEW == 1
OVS_FLOW_CMD_NEW == 1

Truncated == [kind |-> "NetlinkPayloadTruncated", arg |-> ""]
WrongType == [kind |-> "NetlinkWrongType", arg |-> ""]
WrongCmd == [kind |-> "GenlWrongCmd", arg |-> ""]

\* The offset pos rounded up to a multiple of a.
Align(pos, a) == ((pos + a - 1) \div a) * a

Zeros(n) == [k \in 1..n |-> 0]

\* NlMsgBuilder.AlignGrow(a, size): pads the buffer to a multiple of a,
\* reserves size bytes there and returns their offset.
AlignGrow(buf, a, size) ==
    [buf |-> buf \o Zeros(Align(Len(buf), a) - Len(buf) + size),
     pos |-> Align(Len(buf), a)]

\* NlMsgParser.AlignAdvance(a, size): moves the cursor to a multiple of a and
\* consumes size bytes, failing when the data has fewer left.
AlignAdvance(msg, a, size) ==
    IF Align(msg.pos, a) + size > Len(msg.data)
    THEN [msg |-> msg, pos |-> 0, err |-> Truncated]
    ELSE [msg |-> [msg EXCEPT !.pos = Align(msg.pos, a) + size],
          pos |-> Align(msg.pos, a), err |-> NilErr]

\* The four bytes of an int32 in memory, two's complement, low byte first.
Int32Bytes(v) ==
    <<(v % 65536) % 256, (v % 65536) \div 256,
      ((v \div 65536) % 65536) % 256, ((v \div 65536) % 65536) \div 256>>

\* The int32 that four bytes in memory hold.
Int32OfBytes(b) ==
    (IF b[4] >= 128 THEN b[4] * 256 + b[3] - 65536 ELSE b[4] * 256 + b[3]) * 65536
        + b[2] * 256 + b[1]

\* ovsHeaderAt(buf, pos).DpIfIndex = v
StoreDpIfIndex(buf, pos, v) ==
    [k \in 1..Len(buf) |->
        IF k \in (pos + 1)..(pos + SizeofOvsHeader) THEN Int32Bytes(v)[k - pos] ELSE buf[k]]

\* ovsHeaderAt(data, pos): the header overlaid on the bytes at pos.
ovsHeaderAt(data, pos) ==
    [DpIfIndex |-> Int32OfBytes(SubSeq(data, pos + 1, pos + SizeofOvsHeader))]

Int32Saturating(ifindex) ==
    IF ifindex.hi >= 32768 THEN 32767 * 65536 + 65535 ELSE ifindex.hi * 65536 + ifindex.lo

\* int32(ifindex): the 32 bits of the DatapathID read as a signed integer.
Int32OfDatapathID(ifindex) ==
    (IF ifindex.hi >= 32768 THEN ifindex.hi - 65536 ELSE ifindex.hi) * 65536 + ifindex.lo

\* pos := nlmsg.AlignGrow(syscall.NLMSG_ALIGNTO, SizeofOvsHeader);
\* h := ovsHeaderAt(nlmsg.buf, pos); h.DpIfIndex = int32(ifindex).
putOvsHeader(buf, ifindex) ==
    StoreDpIfIndex(AlignGrow(buf, NLMSG_ALIGNTO, SizeofOvsHeader).buf,
                   AlignGrow(buf, NLMSG_ALIGNTO, SizeofOvsHeader).pos,
                   Int32OfDatapathID(ifindex))

NoHeader == [DpIfIndex |-> 0]

\* pos, err := nlmsg.AlignAdvance(syscall.NLMSG_ALIGNTO, SizeofOvsHeader);
\* if err != nil { return nil, err }; return ovsHeaderAt(nlmsg.data, pos), nil.
takeOvsHeader(msg) ==
    LET a == AlignAdvance(msg, NLMSG_ALIGNTO, SizeofOvsHeader) IN
    IF a.err # NilErr
    THEN [msg |-> a.msg, ovshdr |-> NoHeader, err |-> a.err]
    ELSE [msg |-> a.msg, ovshdr |-> ovsHeaderAt(msg.data, a.pos), err |-> NilErr]

\* return DatapathID(ovshdr.DpIfIndex): the 32 bits of the int32.
datapathID(ovshdr) ==
    U32((ovshdr.DpIfIndex \div 65536) % 65536, ovshdr.DpIfIndex % 65536)

\* A received message: the type of its netlink header, the command of its
\* generic netlink header, and the bytes after the two headers with the cursor.
Message(nlType, cmd, data) == [nlType |-> nlType, cmd |-> cmd, data |-> data, pos |-> 0]

\* msg.ExpectNlMsghdr(typ): fails unless the netlink header has that type.
ExpectNlMsghdr(msg, typ) == IF msg.nlType = typ THEN NilErr ELSE WrongType

\* msg.CheckGenlMsghdr(cmd, altCmd): fails unless the command of the generic
\* netlink header, a uint8, is cmd or altCmd.
CheckGenlMsghdr(msg, cmd, altCmd) ==
    IF msg.cmd = cmd \/ msg.cmd = altCmd THEN NilErr ELSE WrongCmd

AltCmdEveryFamily(family) == OVS_DP_CMD_NEW

\* switch family: the second command CheckGenlMsghdr is given.
AltCmd(family) ==
    CASE family = DATAPATH -> OVS_DP_CMD_NEW
      [] family = VPORT    -> OVS_VPORT_CMD_NEW
      [] family = FLOW     -> OVS_FLOW_CMD_NEW
      [] OTHER             -> -1

NoGenlHdr == [cmd |-> -1]

\* dpif.checkNlMsgHeaders(msg, family, cmd): (genlhdr, ovshdr, err), and the
\* checks it ran on msg.
checkNlMsgHeaders(families, msg, family, cmd) ==
    IF ExpectNlMsghdr(msg, families[family].id) # NilErr
    THEN [genlhdr |-> NoGenlHdr, ovshdr |-> NoHeader,
          err |-> ExpectNlMsghdr(msg, families[family].id),
          steps |-> <<"ExpectNlMsghdr">>]
    ELSE IF CheckGenlMsghdr(msg, cmd, AltCmd(family)) # NilErr
    THEN [genlhdr |-> NoGenlHdr, ovshdr |-> NoHeader,
          err |-> CheckGenlMsghdr(msg, cmd, AltCmd(family)),
          steps |-> <<"ExpectNlMsghdr", "CheckGenlMsghdr">>]
    ELSE IF takeOvsHeader(msg).err # NilErr
    THEN [genlhdr |-> NoGenlHdr, ovshdr |-> NoHeader,
          err |-> takeOvsHeader(msg).err,
          steps |-> <<"ExpectNlMsghdr", "CheckGenlMsghdr", "takeOvsHeader">>]
    ELSE [genlhdr |-> [cmd |-> msg.cmd], ovshdr |-> takeOvsHeader(msg).ovshdr,
          err |-> NilErr,
          steps |-> <<"ExpectNlMsghdr", "CheckGenlMsghdr", "takeOvsHeader">>]

\* ------------------------------------------- the functions, called alone
NoCall == [op |-> "none"]

\* The identifiers given to lookupDatapath, character by character.
TestNames ==
    {<<"4", "2">>, <<"0", "4", "2">>, <<"7">>, <<"b", "r">>, <<>>, <<"-", "1">>,
     <<"+", "7">>, <<"4", "x">>,
     <<"4", "2", "9", "4", "9", "6", "7", "2", "9", "5">>,
     <<"4", "2", "9", "4", "9", "6", "7", "2", "9", "6">>}

\* The datapaths the kernel can have: name, numeric id, handle.
DatapathUniverse ==
    {[name |-> <<"b", "r">>, id |-> U32(0, 42), handle |-> 1],
     [name |-> <<"4", "2">>, id |-> U32(0, 7), handle |-> 2],
     [name |-> <<"t", "o", "p">>, id |-> MaxUint32, handle |-> 3]}

\* dpif.LookupDatapath(name) on a kernel with the datapaths of table, where
\* the request fails with fault unless fault is nil.
LookupDatapath(table, fault, name) ==
    IF fault # NilErr THEN [handle |-> 0, err |-> fault]
    ELSE IF \E dp \in table : dp.name = name
    THEN [handle |-> (CHOOSE dp \in table : dp.name = name).handle, err |-> NilErr]
    ELSE [handle |-> 0, err |-> NoSuchDatapath]

\* dpif.LookupDatapathByID(id) likewise.
LookupDatapathByID(table, fault, id) ==
    IF fault # NilErr THEN [handle |-> 0, name |-> <<>>, err |-> fault]
    ELSE IF \E dp \in table : dp.id = id
    THEN [handle |-> (CHOOSE dp \in table : dp.id = id).handle,
          name |-> (CHOOSE dp \in table : dp.id = id).name, err |-> NilErr]
    ELSE [handle |-> 0, name |-> <<>>, err |-> NoSuchDatapath]

\* lookupDatapath(dpif, name) is called.
CallLookupDatapath ==
    /\ px = NoCall
    /\ \E name \in TestNames, table \in SUBSET DatapathUniverse,
          nameFault \in {NilErr, NetlinkError("EPERM")},
          idFault \in {NilErr, NetlinkError("ENOBUFS")} :
        px' = [op |-> "lookupDatapath",
               in |-> [name |-> name, table |-> table,
                       nameFault |-> nameFault, idFault |-> idFault],
               out |-> lookupDatapath(name,
                          LookupDatapath(table, nameFault, name),
                          [id \in Ids |-> LookupDatapathByID(table, idFault, id)])]
    /\ UNCHANGED <<pc, kernelVars, sockets, onceVars, lf, calls, sessionVars>>

\* The bytes after the headers of a received message: none, too few for an
\* ovs header, or an ovs header.
Payloads == {<<>>, <<42, 0>>, putOvsHeader(<<>>, U32(0, 42))}

\* dpif.checkNlMsgHeaders(msg, family, cmd) is called on a Dpif whose families
\* are the kernel's.
CallCheckNlMsgHeaders ==
    /\ px = NoCall
    /\ \E nlType \in GenlMinId..(GenlMinId + FAMILY_COUNT),
          msgCmd \in 0..MaxCmd, data \in Payloads,
          family \in 0..(FAMILY_COUNT - 1), cmd \in 0..MaxCmd :
        LET families == [j \in 0..(FAMILY_COUNT - 1) |-> KernelFamily(j, flowGroup)]
            msg == Message(nlType, msgCmd, data)
        IN  px' = [op |-> "checkNlMsgHeaders",
                   in |-> [families |-> families, msg |-> msg,
                           family |-> family, cmd |-> cmd],
                   out |-> checkNlMsgHeaders(families, msg, family, cmd)]
    /\ UNCHANGED <<pc, kernelVars, sockets, onceVars, lf, calls, sessionVars>>

\* putOvsHeader(ifindex) on a builder holding prefix bytes, then takeOvsHeader
\* on a parser of the built bytes with its cursor after the prefix, then
\* datapathID() of the header taken.
CallHeaderRoundTrip ==
    /\ px = NoCall
    /\ \E ifindex \in Ids, prefix \in 0..MaxPrefix :
        LET buf  == putOvsHeader([k \in 1..prefix |-> 255], ifindex)
            take == takeOvsHeader([data |-> buf, pos |-> prefix])
        IN  px' = [op |-> "headerRoundTrip",
                   in |-> [ifindex |-> ifindex, prefix |-> prefix],
                   out |-> [buf |-> buf, err |-> take.err, pos |-> take.msg.pos,
                            id |-> datapathID(take.ovshdr)]]
    /\ UNCHANGED <<pc, kernelVars, sockets, onceVars, lf, calls, sessionVars>>

\* The call returns.
PureReturn ==
    /\ px # NoCall
    /\ px' = NoCall
    /\ UNCHANGED <<pc, kernelVars, sockets, onceVars, lf, calls, sessionVars>>

NextPure ==
    \/ CallLookupDatapath
    \/ CallCheckNlMsgHeaders
    \/ CallHeaderRoundTrip
    \/ PureReturn

SpecPure == Init /\ [][NextPure]_vars

\* ------------------------------------------------- the resolver's properties
ENOENT == NetlinkError("ENOENT")

\* C1: however many lookupFamily calls run concurrently, all with a first query
\* that failed with ENOENT, loadOpenvswitchModule is executed at most once in
\* the whole process.
AutoloadAtMostOnce == probeRuns <= 1

\* Two threads are in their first call at the same time, both have invoked the
\* guard after an ENOENT, and the action has run.
AutoloadAtMostOnceWitness ==
    \E t1, t2 \in Threads :
        /\ t1 # t2
        /\ calls[t1] = 1 /\ calls[t2] = 1
        /\ lf[t1].triggered /\ lf[t2].triggered
        /\ lf[t1].q = <<ENOENT>> /\ lf[t2].q = <<ENOENT>>
        /\ lf[t1].ran
        /\ probeRuns = 1

\* C2: a caller whose first query failed with ENOENT issues its retry only
\* after the single autoload action has run to completion, whether or not it
\* executed the action itself.
RetryAfterAutoloadCompleted ==
    \A t \in Threads :
        (pc[t] = "lf_query2" \/ Len(lf[t].q) = 2)
            => (probeEnded >= 1 /\ probeEnded = probeRuns)

\* A caller that did not execute the action is about to retry, in its first
\* call, while the thread that executed it is still in its own first call.
RetryAfterAutoloadCompletedWitness ==
    \E t1, t2 \in Threads :
        /\ t1 # t2
        /\ pc[t1] = "lf_query2" /\ lf[t1].triggered /\ ~lf[t1].ran /\ calls[t1] = 1
        /\ lf[t2].ran /\ calls[t2] = 1

\* C3: a first query failing with ENOENT triggers the guard and is retried
\* exactly once, and a retry failing with ENOENT yields
\* familyUnavailableError{name}; a first query failing with any other error
\* returns that error, without retry and without triggering the guard; no call
\* issues more than two queries.
LookupFamilyContract ==
    \A t \in Threads :
        /\ Len(lf[t].q) <= 2
        /\ pc[t] = "lf_ret" =>
            LET q == lf[t].q IN
            /\ Len(q) >= 1
            /\ q[1] = NilErr => (Len(q) = 1 /\ ~lf[t].triggered /\ lf[t].err = NilErr)
            /\ q[1] = ENOENT =>
                /\ lf[t].triggered
                /\ Len(q) = 2
                /\ q[2] = ENOENT => lf[t].err = familyUnavailableError(familyNames[lf[t].name])
                /\ q[2] # ENOENT => lf[t].err = q[2]
            /\ (q[1] # NilErr /\ q[1] # ENOENT) =>
                (lf[t].err = q[1] /\ Len(q) = 1 /\ ~lf[t].triggered)

\* A call returns after two queries that both failed with ENOENT.
LookupFamilyContractWitness ==
    \E t \in Threads : pc[t] = "lf_ret" /\ lf[t].q = <<ENOENT, ENOENT>>

\* C4, as stated: every resolution of a family the kernel does not know, from
\* its first query to its return, has the probe run exactly once and returns
\* an error for which IsKernelLacksODPError is true, never a transport error.
UnknownFamilyAlwaysUnavailable ==
    \A t \in Threads :
        (pc[t] = "lf_ret" /\ lf[t].unknown /\ ~moduleLoaded)
            => (probeRuns = 1 /\ IsKernelLacksODPError(lf[t].err))

\* C4, amended: every resolution of a family the kernel does not know, in
\* which the kernel answers each query (each fails with ENOENT, none with a
\* transport error), issues two queries, has the probe run exactly once in the
\* process, and returns an error for which IsKernelLacksODPError is true.
UnknownFamilyAnsweredUnavailable ==
    \A t \in Threads :
        (/\ pc[t] = "lf_ret"
         /\ lf[t].unknown
         /\ \A k \in 1..Len(lf[t].q) : lf[t].q[k] = ENOENT)
            => /\ Len(lf[t].q) = 2
               /\ probeRuns = 1 /\ probeEnded = 1
               /\ IsKernelLacksODPError(lf[t].err)
               /\ lf[t].err.arg = familyNames[lf[t].name]

\* The second resolution of a thread, which did not run the probe itself,
\* returns for a family still unknown.
UnknownFamilyAnsweredUnavailableWitness ==
    \E t \in Threads :
        /\ pc[t] = "lf_ret" /\ calls[t] = 2 /\ ~lf[t].ran
        /\ lf[t].unknown /\ ~moduleLoaded
        /\ lf[t].q = <<ENOENT, ENOENT>>
        /\ probeRuns = 1


\* ------------------------------------------- the session layer's properties
IsPrefix(p, s) == Len(p) <= Len(s) /\ \A k \in 1..Len(p) : p[k] = s[k]

FamilyOrder == <<DATAPATH, VPORT, FLOW, PACKET>>

FlowGroupMissing(d) == "ovs_flow" \notin DOMAIN dpifs[d].families[FLOW].mcGroups

OpenedBy(call) == {s \in 1..Len(sockets) : sockets[s].call = call}

\* C5: newDpifType resolves the four families in the order DATAPATH, VPORT,
\* FLOW, PACKET; when a resolution fails the socket it opened is closed, no
\* later family is queried and the error is returned with no handle; a handle
\* is returned only with all four family slots resolved.
NewDpifTypeAtomic ==
    \A t \in Threads :
        /\ IsPrefix(fr[t].queried, FamilyOrder)
        /\ pc[t] = "nd_ret" =>
            IF fr[t].err # NilErr
            THEN /\ fr[t].ret = 0
                 /\ \A d \in 1..Len(dpifs) : dpifs[d].sock # fr[t].sock
                 /\ fr[t].sock = 0 => fr[t].queried = <<>>
                 /\ fr[t].sock # 0 =>
                     /\ ~sockets[fr[t].sock].open
                     /\ sockets[fr[t].sock].closeCalls = 1
                     /\ fr[t].queried = SubSeq(FamilyOrder, 1, fr[t].i + 1)
                     /\ fr[t].families[fr[t].i] = EmptyFamily
                     /\ \A j \in 0..(fr[t].i - 1) : fr[t].families[j].id # 0
            ELSE /\ fr[t].ret # 0
                 /\ fr[t].queried = FamilyOrder
                 /\ dpifs[fr[t].ret].sock = fr[t].sock
                 /\ sockets[fr[t].sock].open
                 /\ \A j \in 0..(FAMILY_COUNT - 1) :
                        /\ dpifs[fr[t].ret].families[j].id # 0
                        /\ dpifs[fr[t].ret].families[j] = KernelFamily(j, flowGroup)

\* newDpifType returns an error after the resolution of FLOW, the third
\* family, failed.
NewDpifTypeAtomicWitness ==
    \E t \in Threads :
        /\ pc[t] = "nd_ret"
        /\ fr[t].err # NilErr
        /\ fr[t].queried = <<DATAPATH, VPORT, FLOW>>
        /\ ~sockets[fr[t].sock].open

\* C6: NewDpifOvs(follow) closes the socket and returns the error with no
\* handle when the flow family has no ovs_flow group, follow or not, and when
\* joining the group fails; the socket of a returned handle is a member of the
\* group exactly when follow is true.
NewDpifOvsContract ==
    \A t \in Threads :
        pc[t] = "ovs_ret" =>
            LET d == fr[t].dpif IN
            /\ (d # 0 /\ FlowGroupMissing(d)) =>
                /\ fr[t].ret = 0
                /\ fr[t].err.kind = "errorString"
                /\ ~sockets[dpifs[d].sock].open
            /\ fr[t].joinFailed =>
                /\ fr[t].follow
                /\ fr[t].ret = 0
                /\ fr[t].err # NilErr
                /\ ~sockets[dpifs[d].sock].open
            /\ fr[t].ret = 0 <=> fr[t].err # NilErr
            /\ fr[t].ret # 0 =>
                /\ fr[t].ret = d
                /\ sockets[dpifs[d].sock].open
                /\ (KernelGroupId(FLOW) \in sockets[dpifs[d].sock].groups) <=> fr[t].follow

\* NewDpifOvs(false) returns the missing-group error after newDpifType
\* succeeded.
NewDpifOvsContractWitness ==
    \E t \in Threads :
        /\ pc[t] = "ovs_ret"
        /\ fr[t].op = "NewDpifOvs"
        /\ ~fr[t].follow
        /\ fr[t].dpif # 0
        /\ FlowGroupMissing(fr[t].dpif)
        /\ fr[t].ret = 0

\* C7: when FollowOvsFlows returns an error, every resource it acquired has
\* been released: no socket the call opened, the session's socket included, is
\* still open.
FollowOvsFlowsReleasesOnError ==
    \A t \in Threads :
        (pc[t] = "ff_ret" /\ fr[t].err # NilErr)
            => \A s \in OpenedBy(calls[t]) : ~sockets[s].open

\* C8: the stop function FollowOvsFlows returns calls Close on the session's
\* socket only after the flow-follow stop function has returned: no step makes
\* a Close call on the socket of a session whose reader is still running.
StopClosesAfterReaderStopped ==
    [][\A k \in 1..Len(follows) :
          (/\ follows[k].chan
           /\ sockets'[dpifs[follows[k].dpif].sock].closeCalls
                 > sockets[dpifs[follows[k].dpif].sock].closeCalls)
              => follows[k].reader = "stopped"]_vars

\* The first invocation of a stop function has executed both statements: the
\* reader is stopped and the socket closed.
StopClosesAfterReaderStoppedWitness ==
    \E t \in Threads :
        /\ pc[t] = "stop_ret"
        /\ follows[fr[t].k].stops = 0
        /\ follows[fr[t].k].reader = "stopped"
        /\ ~sockets[dpifs[follows[fr[t].k].dpif].sock].open
        /\ sockets[dpifs[follows[fr[t].k].dpif].sock].closeCalls = 1

\* C9: the stop function FollowOvsFlows returns is safe to invoke more than
\* once: Close is called at most once on the session's socket (the transport
\* leaves a second Close undefined), and no socket is closed that nobody
\* called Close on.
StopTwiceIsSafe ==
    /\ \A k \in 1..Len(follows) :
          follows[k].chan => sockets[dpifs[follows[k].dpif].sock].closeCalls <= 1
    /\ \A s \in 1..Len(sockets) : sockets[s].closeCalls = 0 => sockets[s].open

\* C10: a FollowOvsFlows that returns without error returns a non-nil channel
\* and a non-nil stop function; once the stop function has been invoked once,
\* even before any event arrived, no socket the call opened is still open and
\* Close has been called on the session's socket exactly once.
FollowOvsFlowsThenStop ==
    /\ \A t \in Threads :
          (pc[t] = "ff_ret" /\ fr[t].err = NilErr) => (fr[t].chan /\ fr[t].stopFn)
    /\ \A k \in 1..Len(follows) :
          follows[k].err = NilErr =>
            /\ follows[k].chan /\ follows[k].stopFn
            /\ (/\ follows[k].stops = 1
                /\ ~\E t \in Threads : fr[t].op = "stop" /\ fr[t].k = k) =>
                  /\ \A s \in OpenedBy(follows[k].call) : ~sockets[s].open
                  /\ sockets[dpifs[follows[k].dpif].sock].closeCalls = 1
                  /\ follows[k].reader = "stopped"

\* A successful FollowOvsFlows whose call also ran the autoload probe, stopped
\* once before any event was delivered.
FollowOvsFlowsThenStopWitness ==
    \E k \in 1..Len(follows) :
        /\ follows[k].err = NilErr
        /\ follows[k].stops = 1
        /\ follows[k].delivered = 0
        /\ Cardinality(OpenedBy(follows[k].call)) = 2
        /\ \A t \in Threads : pc[t] = "idle"


\* C11: Reopen performs no family lookup, and the handle it returns has the
\* family set of the handle it was called on and a new socket of the same
\* transport kind, whatever a family lookup would return at that time.
ReopenKeepsFamilies ==
    /\ \A t \in Threads :
          fr[t].op = "Reopen" =>
            /\ fr[t].queried = <<>>
            /\ lf[t] = NoLookup
            /\ (pc[t] = "ret" /\ fr[t].ret # 0) =>
                /\ dpifs[fr[t].ret].origin = fr[t].dpif
                /\ dpifs[fr[t].ret].sock = fr[t].sock
                /\ dpifs[fr[t].ret].sock # dpifs[fr[t].dpif].sock
                /\ sockets[fr[t].sock].open
                /\ sockets[fr[t].sock].kind = sockets[dpifs[fr[t].dpif].sock].kind
    /\ \A e \in 1..Len(dpifs) :
          dpifs[e].origin # 0 => dpifs[e].families = dpifs[dpifs[e].origin].families

\* Reopen returns a handle while the module is unloaded and the autoload has
\* been spent: every family lookup would fail.
ReopenKeepsFamiliesWitness ==
    \E t \in Threads :
        /\ pc[t] = "ret"
        /\ fr[t].op = "Reopen"
        /\ fr[t].ret # 0
        /\ ~moduleLoaded
        /\ onceDone
        /\ dpifs[fr[t].ret].families[FLOW].id # 0


\* The two handles of a Reopen: one was reopened from the other.
ReopenPair(d, e) == d # e /\ (dpifs[e].origin = d \/ dpifs[d].origin = e)

\* C17: closing one of a Dpif and the Dpif reopened from it closes that
\* handle's own socket and leaves the other handle's socket and families as
\* they were, whichever of the two is closed first.
ReopenedHandlesAreIndependent ==
    [][\A d \in 1..Len(dpifs) : \A e \in 1..Len(dpifs) :
          ( /\ ReopenPair(d, e)
            /\ sockets[dpifs[d].sock].open
            /\ sockets'[dpifs[d].sock].closeCalls > sockets[dpifs[d].sock].closeCalls )
          => /\ ~sockets'[dpifs[d].sock].open
             /\ sockets'[dpifs[e].sock].open = sockets[dpifs[e].sock].open
             /\ dpifs'[e] = dpifs[e]]_vars

\* The original of a Reopen has been closed while the reopened handle, which
\* was opened when the original was still open, stays usable.
ReopenedHandlesAreIndependentWitness ==
    \E d \in 1..Len(dpifs) : \E e \in 1..Len(dpifs) :
        /\ dpifs[e].origin = d
        /\ dpifs[e].held
        /\ sockets[dpifs[d].sock].closeCalls = 1
        /\ ~sockets[dpifs[d].sock].open
        /\ sockets[dpifs[e].sock].open
        /\ sockets[dpifs[e].sock].fd # sockets[dpifs[d].sock].fd

Constructors == {"NewDpif", "NewDpifOvs", "FollowOvsFlows"}

\* C18: on every error return of NewDpif and NewDpifOvs after the socket was
\* opened, Close has been called on that socket exactly once; on a successful
\* return it has not been called.
ConstructorClosesOnceOnError ==
    \A t \in Threads :
        (fr[t].op \in Constructors /\ fr[t].sock # 0) =>
            /\ sockets[fr[t].sock].closeCalls <= 1
            /\ pc[t] \in {"nd_ret", "ovs_ret"} =>
                 sockets[fr[t].sock].closeCalls = (IF fr[t].err # NilErr THEN 1 ELSE 0)
            /\ (pc[t] = "ret" /\ fr[t].op # "FollowOvsFlows") =>
                 sockets[fr[t].sock].closeCalls = (IF fr[t].err # NilErr THEN 1 ELSE 0)

\* NewDpifOvs returns the error of joining the flow group, the one failure
\* branch of its own, with the socket closed once.
ConstructorClosesOnceOnErrorWitness ==
    \E t \in Threads :
        /\ pc[t] = "ret"
        /\ fr[t].op = "NewDpifOvs"
        /\ fr[t].joinFailed
        /\ fr[t].err # NilErr
        /\ sockets[fr[t].sock].closeCalls = 1
        /\ ~sockets[fr[t].sock].open

\* C19: FollowOvsFlows returns a stop function only together with a nil error;
\* with an error it returns neither a channel nor a stop function.
FollowOvsFlowsStopOnlyWithoutError ==
    \A t \in Threads :
        (pc[t] = "ff_ret" /\ fr[t].err # NilErr) => (~fr[t].chan /\ ~fr[t].stopFn)


\* ------------------------------------------------ the functions' properties
\* The command a family's kernel used to put in its replies: "object created".
CreatedCmd(family) ==
    CASE family = DATAPATH -> OVS_DP_CMD_NEW
      [] family = VPORT    -> OVS_VPORT_CMD_NEW
      [] family = FLOW     -> OVS_FLOW_CMD_NEW

\* C12: a message that addresses the resolved id of the family and carries
\* its ovs header is accepted, for DATAPATH, VPORT and FLOW, exactly when its
\* command is the requested one or the family's created command, and for
\* PACKET exactly when its command is the requested one; a message whose
\* netlink header does not address the family's id is rejected by the first
\* check, before the command is examined; a message cut short before its ovs
\* header is rejected after its command was accepted.
ReplyValidation ==
    px.op = "checkNlMsgHeaders" =>
        LET msg       == px.in.msg
            family    == px.in.family
            addressed == msg.nlType = px.in.families[family].id
            complete  == Len(msg.data) >= SizeofOvsHeader
            cmdOk     == IF family = PACKET
                         THEN msg.cmd = px.in.cmd
                         ELSE msg.cmd = px.in.cmd \/ msg.cmd = CreatedCmd(family)
        IN  /\ ~addressed =>
                (px.out.err = WrongType /\ px.out.steps = <<"ExpectNlMsghdr">>)
            /\ (addressed /\ ~cmdOk) =>
                (px.out.err = WrongCmd
                    /\ px.out.steps = <<"ExpectNlMsghdr", "CheckGenlMsghdr">>)
            /\ (addressed /\ cmdOk /\ complete) =>
                (px.out.err = NilErr
                    /\ px.out.genlhdr.cmd = msg.cmd
                    /\ datapathID(px.out.ovshdr) = U32(0, 42))
            /\ (addressed /\ cmdOk /\ ~complete) => px.out.err = Truncated

\* A DATAPATH reply carrying the created command instead of the requested one
\* is accepted.
ReplyValidationWitness ==
    /\ px.op = "checkNlMsgHeaders"
    /\ px.in.family = DATAPATH
    /\ px.in.msg.nlType = px.in.families[DATAPATH].id
    /\ px.in.msg.cmd = OVS_DP_CMD_NEW
    /\ px.in.cmd # OVS_DP_CMD_NEW
    /\ px.out.err = NilErr

\* The datapaths of the kernel with that name, and with that numeric id.
Named(name) == {dp \in px.in.table : dp.name = name}
Numbered(id) == {dp \in px.in.table : dp.id = id}

\* The identifiers that are decimal unsigned 32-bit numbers, with their values.
DecimalNames ==
    {[name |-> <<"4", "2">>, n |-> U32(0, 42)],
     [name |-> <<"0", "4", "2">>, n |-> U32(0, 42)],
     [name |-> <<"7">>, n |-> U32(0, 7)],
     [name |-> <<"4", "2", "9", "4", "9", "6", "7", "2", "9", "5">>, n |-> MaxUint32]}

IsDecimal(name) == \E d \in DecimalNames : d.name = name

\* The name lookup of the call fails with no-such-datapath.
NameUnknown == px.in.nameFault = NilErr /\ Named(px.in.name) = {}

\* C13: when a datapath has the name, lookupDatapath returns its handle and
\* the name given; when none has and the name is a decimal unsigned 32-bit
\* number n that a datapath has as its id, it returns that datapath's handle
\* and recorded name; when none has and the name is no such number, or no
\* datapath has id n, it fails with Cannot find datapath "name".
LookupDatapathResolves ==
    px.op = "lookupDatapath" =>
        LET name == px.in.name
            n    == IF IsDecimal(name)
                    THEN [ok |-> TRUE, value |-> (CHOOSE d \in DecimalNames : d.name = name).n]
                    ELSE [ok |-> FALSE, value |-> U32(0, 0)]
        IN  /\ (px.in.nameFault = NilErr /\ Named(name) # {}) =>
                \E dp \in Named(name) :
                    /\ px.out.err = NilErr
                    /\ px.out.handle = dp.handle
                    /\ px.out.name = name
            /\ (NameUnknown /\ n.ok /\ px.in.idFault = NilErr /\ Numbered(n.value) # {}) =>
                \E dp \in Numbered(n.value) :
                    /\ px.out.err = NilErr
                    /\ px.out.handle = dp.handle
                    /\ px.out.name = dp.name
            /\ (NameUnknown /\ (~n.ok \/ (px.in.idFault = NilErr /\ Numbered(n.value) = {}))) =>
                /\ px.out.err = ErrorString(<<"Cannot find datapath", name>>)
                /\ px.out.handle = 0

\* "42" names no datapath, the datapath "br" has numeric id 42: the call
\* returns the handle of "br" and the name "br".
LookupDatapathResolvesWitness ==
    /\ px.op = "lookupDatapath"
    /\ px.in.name = <<"4", "2">>
    /\ NameUnknown
    /\ px.out.err = NilErr
    /\ px.out.name = <<"b", "r">>
    /\ px.out.handle = 1
    /\ px.out.calls = <<"LookupDatapath", "LookupDatapathByID">>

\* C14: a name lookup failing with an error other than no-such-datapath makes
\* lookupDatapath return that error without a numeric lookup; a numeric lookup
\* failing with an error other than no-such-datapath makes it return that
\* error, not the cannot-find error.
LookupDatapathPropagatesErrors ==
    px.op = "lookupDatapath" =>
        /\ px.in.nameFault # NilErr =>
            /\ px.out.err = px.in.nameFault
            /\ px.out.calls = <<"LookupDatapath">>
            /\ px.out.handle = 0
        /\ (NameUnknown /\ IsDecimal(px.in.name) /\ px.in.idFault # NilErr) =>
            /\ px.out.err = px.in.idFault
            /\ px.out.calls = <<"LookupDatapath", "LookupDatapathByID">>
            /\ px.out.handle = 0

\* The name lookup of a decimal name fails with EPERM while the numeric lookup
\* would have found a datapath: the call returns EPERM.
LookupDatapathPropagatesErrorsWitness ==
    /\ px.op = "lookupDatapath"
    /\ px.in.name = <<"4", "2">>
    /\ px.in.nameFault = NetlinkError("EPERM")
    /\ px.in.idFault = NilErr
    /\ Numbered(U32(0, 42)) # {}
    /\ px.out.err = NetlinkError("EPERM")

\* C15: a header written with putOvsHeader for the datapath id X, behind any
\* number of bytes already in the buffer, is taken back by takeOvsHeader
\* without error and its datapathID() is X, for every 32-bit X.
HeaderRoundTrip ==
    px.op = "headerRoundTrip" =>
        /\ px.out.err = NilErr
        /\ px.out.id = px.in.ifindex
        /\ Len(px.out.buf) = Align(px.in.prefix, NLMSG_ALIGNTO) + SizeofOvsHeader
        /\ px.out.pos = Len(px.out.buf)

\* The largest value the 32-bit parse of lookupDatapath yields, written at an
\* unaligned offset, is read back.
HeaderRoundTripWitness ==
    /\ px.op = "headerRoundTrip"
    /\ px.in.ifindex = DatapathID(ParseUint32(<<"4", "2", "9", "4", "9", "6", "7", "2", "9", "5">>).value)
    /\ px.in.ifindex = MaxUint32
    /\ px.in.prefix % NLMSG_ALIGNTO # 0
    /\ px.out.id = MaxUint32
    /\ px.out.err = NilErr

\* C16: when loadOpenvswitchModule has returned, the temporary socket it
\* opened is closed, by one Close, also when the ioctl failed; the socket is
\* an AF_INET socket and not the session's netlink socket; the error of the
\* lookup is still the one of the first query; and when the socket could not
\* be opened no ioctl was issued.
ProbeClosesTemporarySocket ==
    /\ \A t \in Threads :
          pc[t] = "once_finish" =>
            /\ lf[t].ran
            /\ lf[t].q = <<ENOENT>>
            /\ lf[t].err = ENOENT
            /\ IF lf[t].s = 0
               THEN lf[t].ioctl = "none"
               ELSE /\ lf[t].ioctl \in {"ok", "failed"}
                    /\ sockets[lf[t].s].kind = "AF_INET"
                    /\ ~sockets[lf[t].s].open
                    /\ sockets[lf[t].s].closeCalls = 1
                    /\ lf[t].s # fr[t].sock
    /\ \A s \in 1..Len(sockets) :
          (sockets[s].kind = "AF_INET" /\ sockets[s].open) =>
              \E t \in Threads :
                  lf[t].s = s /\ pc[t] \in {"probe_ioctl", "probe_close"}

\* The probe has returned after its ioctl failed, and its socket is closed.
ProbeClosesTemporarySocketWitness ==
    \E t \in Threads :
        /\ pc[t] = "once_finish"
        /\ lf[t].s # 0
        /\ lf[t].ioctl = "failed"
        /\ ~sockets[lf[t].s].open
        /\ fr[t].sock # 0

====
